---- MODULE Spec2Model ----
(***************************************************************************)
(* PostgresMCPServer (src/src/index.ts): the CallTool dispatcher, its four *)
(* handlers, the SQL guard of executeQuery and the pg connection pool the  *)
(* handlers share.                                                         *)
(*                                                                         *)
(* Text is a sequence of one-character strings, so that trim, toLowerCase, *)
(* startsWith and the regular expression are computed character by         *)
(* character.  Fixed SQL statements are one-element sequences holding the  *)
(* statement's name.                                                       *)
(***************************************************************************)
EXTENDS Integers, Sequences, FiniteSets, TLC

(***************************************************************************)
(* Bounds of the model.                                                    *)
(***************************************************************************)
\* concurrent tool calls in flight
NumCalls == 2
\* pooled connections (dbConfig.max is configuration; small here so calls wait)
PoolSize == 1
\* fragments concatenated into a generated SQL text
MaxFrags == 3
\* changes other sessions make to the catalog while the server runs
MaxSchemaChanges == 2
\* lines of weather.csv after the header
MaxLines == 4
\* SIGINT and SIGTERM deliveries to the server process
MaxSignals == 2
\* batchSize of setupWeatherData (1000 in the script), scaled to the files
\* of at most MaxLines lines so that a file spans several batches
BatchSize == 2

Calls == 1..NumCalls
Clients == 1..PoolSize
NoClient == 0

(***************************************************************************)
(* State.                                                                  *)
(***************************************************************************)
VARIABLES
    pc,           \* per call: "idle", "connect", "query", "done"
    req,          \* per call: the request being handled
    client,       \* per call: the handler's local `client`
    firstResult,  \* per call: describeTable's columnsResult
    log,          \* per call: the steps taken so far
    outcomes,     \* per call: what was handed back to the transport
    idleClients,  \* the pool: clients not checked out
    tables,       \* the database: the rows of information_schema.tables
    schemaChanges,\* the database: catalog changes made so far
    setup,        \* setup-weather-data.ts: the locals of setupWeatherData
    process,      \* the server process: run(), the signal handlers, exit
    validation    \* validate-weather.ts: validateWeatherData and its pool

\* the server process, and the scripts that run as processes of their own
scripts == <<setup, process, validation>>

vars == <<pc, req, client, firstResult, log, outcomes, idleClients,
          tables, schemaChanges, scripts>>

(***************************************************************************)
(* Characters and strings.                                                 *)
(***************************************************************************)
UpperChars == <<"A","B","C","D","E","F","G","H","I","J","K","L","M",
                "N","O","P","Q","R","S","T","U","V","W","X","Y","Z">>
LowerChars == <<"a","b","c","d","e","f","g","h","i","j","k","l","m",
                "n","o","p","q","r","s","t","u","v","w","x","y","z">>
DigitChars == {"0","1","2","3","4","5","6","7","8","9"}
SpaceChars == {" ", "\t", "\n"}

Range(s) == {s[i] : i \in DOMAIN s}

\* String.prototype.toLowerCase, one character
LowerOf ==
    [ch \in Range(UpperChars) |->
        LowerChars[CHOOSE i \in DOMAIN UpperChars : UpperChars[i] = ch]]
ToLowerChar(ch) == IF ch \in DOMAIN LowerOf THEN LowerOf[ch] ELSE ch

\* String.prototype.toLowerCase
ToLowerCase(s) == [i \in DOMAIN s |-> ToLowerChar(s[i])]

\* the regular expression's \s
IsSpace(ch) == ch \in SpaceChars

\* the regular expression's \w
WordChars == Range(UpperChars) \cup Range(LowerChars) \cup DigitChars \cup {"_"}
IsWordChar(ch) == ch \in WordChars

\* String.prototype.trim
Trim(s) ==
    LET keep == {i \in DOMAIN s : ~IsSpace(s[i])}
    IN  IF keep = {} THEN <<>>
        ELSE LET lo == CHOOSE i \in keep : \A j \in keep : i <= j
                 hi == CHOOSE i \in keep : \A j \in keep : j <= i
             IN  SubSeq(s, lo, hi)

\* String.prototype.startsWith
StartsWith(s, prefix) ==
    /\ Len(s) >= Len(prefix)
    /\ SubSeq(s, 1, Len(prefix)) = prefix

SelectWord == <<"s","e","l","e","c","t">>

\* the alternatives of the dangerous pattern, lowercased (the /i flag)
DangerousKeywords ==
    { <<"d","r","o","p">>, <<"d","e","l","e","t","e">>,
      <<"t","r","u","n","c","a","t","e">>, <<"a","l","t","e","r">>,
      <<"c","r","e","a","t","e">>, <<"i","n","s","e","r","t">>,
      <<"u","p","d","a","t","e">> }

\* the pattern without \b: the keyword may continue a longer word
PatternMatchesAtNoBoundary(sql, i, kw) ==
    /\ i + Len(kw) <= Len(sql)
    /\ \A j \in DOMAIN kw : ToLowerChar(sql[i + j - 1]) = kw[j]
    /\ IsSpace(sql[i + Len(kw)])

\* /\b(KW)\s+/i matched with the keyword starting at position i
PatternMatchesAt(sql, i, kw) ==
    /\ i + Len(kw) <= Len(sql)
    /\ i = 1 \/ ~IsWordChar(sql[i - 1])
    /\ \A j \in DOMAIN kw : ToLowerChar(sql[i + j - 1]) = kw[j]
    /\ IsSpace(sql[i + Len(kw)])

\* dangerousPatterns.some(pattern => pattern.test(sql))
IsDangerous(sql) ==
    \E i \in DOMAIN sql : \E kw \in DangerousKeywords : PatternMatchesAt(sql, i, kw)

\* startsWith('select') on the trimmed text, toLowerCase() left out
BeginsWithSelectCaseSensitive(sql) == StartsWith(Trim(sql), SelectWord)

\* sql.trim().toLowerCase().startsWith('select')
BeginsWithSelect(sql) == StartsWith(ToLowerCase(Trim(sql)), SelectWord)

\* the guard with the negation of the startsWith test left out
GuardRejectsSelectOnly(sql) == IsDangerous(sql) /\ BeginsWithSelect(sql)

\* the guard with one RegExp carrying the g flag shared by all calls:
\* test() resumes after the previous match, so after a call it rejected the
\* pattern finds nothing in the next text and resets
GuardRejectsStickyPattern(sql) ==
    LET rejected == {c \in 1..NumCalls :
                        /\ \E i \in DOMAIN log[c] : log[c][i].e = "guard"
                        /\ \A i \in DOMAIN log[c] : log[c][i].e # "connect"}
    IN  IF Cardinality(rejected) % 2 = 1
        THEN FALSE
        ELSE IsDangerous(sql) /\ ~BeginsWithSelect(sql)

\* the guard of executeQuery: TRUE when the McpError is thrown
GuardRejects(sql) == IsDangerous(sql) /\ ~BeginsWithSelect(sql)


(***************************************************************************)
(* Argument values as the transport delivers them (JSON values).           *)
(***************************************************************************)
Undef == [t |-> "undefined", s |-> <<>>, n |-> 0]
Str(text) == [t |-> "string", s |-> text, n |-> 0]
Num(k) == [t |-> "number", s |-> <<>>, n |-> k]
Arr(items) == [t |-> "array", s |-> items, n |-> 0]

\* request.params.arguments: obj is FALSE when no arguments object is sent
NoArgs == [obj |-> FALSE, sql |-> Undef, params |-> Undef,
           schema |-> Undef, table |-> Undef, limit |-> Undef]
EmptyArgs == [NoArgs EXCEPT !.obj = TRUE]

PublicSchema == <<"p","u","b","l","i","c">>
\* z.number().positive().optional().default(10)
DefaultLimit == 10

\* .optional().default(d) applied to a value that passed validation
OrDefault(v, d) == IF v.t = "undefined" THEN d ELSE v

(***************************************************************************)
(* The zod schemas: whether safeParse succeeds, and validation.data.       *)
(***************************************************************************)
\* z.string().optional().default("public")
OptionalStringOk(v) == v.t \in {"undefined", "string"}

\* QuerySchema without .min(1)
QuerySchemaNoMin(args) ==
    /\ args.obj
    /\ args.sql.t = "string"
    /\ args.params.t \in {"undefined", "array"}

\* QuerySchema.safeParse(args).success
QuerySchemaOk(args) ==
    /\ args.obj
    /\ args.sql.t = "string"
    /\ Len(args.sql.s) >= 1
    /\ args.params.t \in {"undefined", "array"}

\* TableSchema.safeParse(args).success
TableSchemaOk(args) ==
    /\ args.obj
    /\ OptionalStringOk(args.schema)
    /\ OptionalStringOk(args.table)

\* TableSchema.required({ table: true }).safeParse(args).success
DescribeSchemaOk(args) ==
    /\ args.obj
    /\ OptionalStringOk(args.schema)
    /\ args.table.t = "string"

\* the schema of getTableData with .nonnegative() for .positive()
TableDataSchemaNonNegative(args) ==
    /\ args.obj
    /\ args.table.t = "string"
    /\ Len(args.table.s) >= 1
    /\ OptionalStringOk(args.schema)
    /\ \/ args.limit.t = "undefined"
       \/ args.limit.t = "number" /\ args.limit.n >= 0

\* the schema of getTableData: safeParse(args).success
TableDataSchemaOk(args) ==
    /\ args.obj
    /\ args.table.t = "string"
    /\ Len(args.table.s) >= 1
    /\ OptionalStringOk(args.schema)
    /\ \/ args.limit.t = "undefined"
       \/ args.limit.t = "number" /\ args.limit.n > 0

\* validation.data of each schema
SqlOf(args) == args.sql.s
ParamsOf(args) == OrDefault(args.params, Arr(<<>>)).s
SchemaOf(args) == OrDefault(args.schema, Str(PublicSchema)).s
TableOf(args) == args.table.s
LimitOf(args) == OrDefault(args.limit, Num(DefaultLimit)).n

(***************************************************************************)
(* Tools and the SQL each handler sends.                                   *)
(***************************************************************************)
ToolNames == {"query_database", "list_tables", "describe_table", "get_table_data"}

ListTablesSql == <<"SELECT table_name, table_type FROM information_schema.tables WHERE table_schema = $1 ORDER BY table_name">>
ColumnsSql == <<"SELECT column_name, ... FROM information_schema.columns WHERE table_schema = $1 AND table_name = $2 ORDER BY ordinal_position">>
ConstraintsSql == <<"SELECT tc.constraint_name, ... FROM information_schema.table_constraints tc JOIN information_schema.key_column_usage kcu ... WHERE tc.table_schema = $1 AND tc.table_name = $2">>

\* `SELECT * FROM ${schemaName}.${table} LIMIT $1`
TableDataSql(schemaName, table) ==
    <<"SELECT * FROM ">> \o schemaName \o <<".">> \o table \o <<" LIMIT $1">>

\* safeParse(args).success of the schema the named handler uses
ValidationOk(name, args) ==
    CASE name = "query_database" -> QuerySchemaOk(args)
      [] name = "list_tables"    -> TableSchemaOk(args)
      [] name = "describe_table" -> DescribeSchemaOk(args)
      [] name = "get_table_data" -> TableDataSchemaOk(args)

\* the handlers with the schema and table written into the SQL text
FirstQueryInterpolated(name, args) ==
    CASE name = "query_database" -> [sql |-> SqlOf(args), params |-> ParamsOf(args)]
      [] name = "list_tables"    ->
             [sql |-> <<"SELECT table_name, table_type FROM information_schema.tables WHERE table_schema = '">>
                      \o SchemaOf(args) \o <<"' ORDER BY table_name">>,
              params |-> <<>>]
      [] name = "describe_table" ->
             [sql |-> <<"SELECT column_name, ... FROM information_schema.columns WHERE table_schema = '">>
                      \o SchemaOf(args) \o <<"' AND table_name = '">> \o TableOf(args)
                      \o <<"' ORDER BY ordinal_position">>,
              params |-> <<>>]
      [] name = "get_table_data" ->
             [sql |-> TableDataSql(SchemaOf(args), TableOf(args)),
              params |-> <<LimitOf(args)>>]

\* the first client.query(text, values) of the named handler
FirstQuery(name, args) ==
    CASE name = "query_database" -> [sql |-> SqlOf(args), params |-> ParamsOf(args)]
      [] name = "list_tables"    -> [sql |-> ListTablesSql, params |-> <<SchemaOf(args)>>]
      [] name = "describe_table" ->
             [sql |-> ColumnsSql, params |-> <<SchemaOf(args), TableOf(args)>>]
      [] name = "get_table_data" ->
             [sql |-> TableDataSql(SchemaOf(args), TableOf(args)),
              params |-> <<LimitOf(args)>>]

\* the second client.query of describeTable
SecondQuery(args) ==
    [sql |-> ConstraintsSql, params |-> <<SchemaOf(args), TableOf(args)>>]

(***************************************************************************)
(* Errors and responses.                                                   *)
(***************************************************************************)
\* new McpError(code, message): message is a sequence of text pieces
McpError(code, message) == [mcp |-> TRUE, code |-> code, message |-> message]

\* an Error raised by pg (pool.connect or client.query)
DriverError(message) == [mcp |-> FALSE, code |-> "", message |-> message]

ZodMessage == "validation.error.message"
GuardMessage == "Only SELECT queries are allowed for security reasons"

InvalidParamsError == McpError("InvalidParams", <<"Invalid parameters: ", ZodMessage>>)
GuardError == McpError("InvalidParams", <<GuardMessage>>)
MethodNotFoundError(name) == McpError("MethodNotFound", <<"Unknown tool: ", name>>)

\* the errors the database may answer with
ConnectErrors == {DriverError(<<"connect ECONNREFUSED">>)}
QueryErrors == {DriverError(<<"syntax error at or near">>)}

\* the results the database may answer with; hasFields is FALSE when the
\* driver result carries no field list (result.fields is undefined)
QueryResults ==
    { [rows |-> <<>>, rowCount |-> 0, hasFields |-> TRUE, fields |-> <<>>],
      [rows |-> <<"row1">>, rowCount |-> 1, hasFields |-> TRUE,
       fields |-> <<[name |-> "one", dataTypeID |-> 23]>>],
      [rows |-> <<>>, rowCount |-> 0, hasFields |-> FALSE, fields |-> <<>>] }
NoResult == [rows |-> <<>>, rowCount |-> -1, hasFields |-> FALSE, fields |-> <<>>]

\* the tables other sessions create or drop, and the ones the catalog holds
\* at the start
CatalogTables ==
    { [table_schema |-> <<"p","u","b","l","i","c">>, table_name |-> <<"t">>],
      [table_schema |-> <<"p","u","b","l","i","c">>, table_name |-> <<"a","b">>],
      [table_schema |-> <<"s">>, table_name |-> <<"u">>] }
InitialTables ==
    { [table_schema |-> <<"p","u","b","l","i","c">>, table_name |-> <<"u">>],
      [table_schema |-> <<"p","u","b","l","i","c">>, table_name |-> <<"t">>] }

\* table_name < table_name in the ordering of the name type: character by
\* character, a proper prefix first (names here are lower-case letters)
CharRank(ch) ==
    IF ch = "_" THEN 0 ELSE CHOOSE i \in DOMAIN LowerChars : LowerChars[i] = ch
RECURSIVE NameLess(_, _)
NameLess(x, y) ==
    IF y = <<>> THEN FALSE
    ELSE IF x = <<>> THEN TRUE
    ELSE IF x[1] # y[1] THEN CharRank(x[1]) < CharRank(y[1])
    ELSE NameLess(Tail(x), Tail(y))

\* ORDER BY table_name over a set of rows
RECURSIVE OrderByTableName(_)
OrderByTableName(rows) ==
    IF rows = {} THEN <<>>
    ELSE LET first == CHOOSE r \in rows :
                          \A o \in rows \ {r} : NameLess(r.table_name, o.table_name)
         IN  <<first>> \o OrderByTableName(rows \ {first})

\* SELECT table_name, table_type ... WHERE table_schema = $1
ListTablesSelect(catalog, schema) ==
    { [table_name |-> t.table_name, table_type |-> "BASE TABLE"] :
        t \in {x \in catalog : x.table_schema = schema} }

RECURSIVE Reverse(_)
Reverse(seq) == IF seq = <<>> THEN <<>> ELSE Reverse(Tail(seq)) \o <<seq[1]>>

\* the statement with ORDER BY table_name DESC
ListTablesRowsDescending(catalog, schema) ==
    Reverse(OrderByTableName(ListTablesSelect(catalog, schema)))

\* the rows the listTables statement yields in a catalog
ListTablesRows(catalog, schema) ==
    OrderByTableName(ListTablesSelect(catalog, schema))

\* the results the database may answer query q with
ResultsFor(q) ==
    IF q.sql = ListTablesSql
    THEN LET rows == ListTablesRows(tables, q.params[1])
         IN  {[rows |-> rows, rowCount |-> Len(rows), hasFields |-> TRUE,
               fields |-> <<>>]}
    ELSE QueryResults

\* the envelope { content: [{ type: "text", text: JSON.stringify(payload) }] }
Envelope(payload) == [content |-> <<[type |-> "text", text |-> payload]>>]

\* the JSON payload each handler serializes
Payload(name, args, first, second) ==
    CASE name = "query_database" ->
             \* JSON.stringify leaves out a key whose value is undefined
             IF second.hasFields
             THEN [rows |-> second.rows, rowCount |-> second.rowCount,
                   fields |-> second.fields]
             ELSE [rows |-> second.rows, rowCount |-> second.rowCount]
      [] name = "list_tables" ->
             [schema |-> SchemaOf(args), tables |-> second.rows]
      [] name = "describe_table" ->
             [table |-> SchemaOf(args) \o <<".">> \o TableOf(args),
              columns |-> first.rows, constraints |-> second.rows]
      [] name = "get_table_data" ->
             [table |-> SchemaOf(args) \o <<".">> \o TableOf(args),
              limit |-> LimitOf(args), rowCount |-> second.rowCount,
              data |-> second.rows]

\* what the transport gets back from one call
Returned(envelope) == [kind |-> "response", envelope |-> envelope, error |-> McpError("", <<>>)]
Thrown(error) == [kind |-> "error", envelope |-> Envelope(<<>>), error |-> error]

\* the catch block logging a driver error without rethrowing it
DispatcherCatchSwallow(name, error) ==
    IF error.mcp THEN <<Thrown(error)>> ELSE <<>>

\* the catch block without the instanceof McpError test
DispatcherCatchWrapAll(name, error) ==
    <<Thrown(McpError("InternalError",
                      <<"Failed to execute ", name, ": ">> \o error.message))>>

\* the catch block of the CallTool handler: what it throws for a caught error
DispatcherCatch(name, error) ==
    IF error.mcp
    THEN <<Thrown(error)>>
    ELSE <<Thrown(McpError("InternalError",
                           <<"Failed to execute ", name, ": ">> \o error.message))>>

\* a handler without the finally block
FinallyNoRelease(cl) == <<>>

\* a finally block that calls client.release() without the `if (client)` test
FinallyReleasesUnguarded(cl) == <<cl>>

\* the finally block of a handler: the clients it releases
FinallyReleases(cl) == IF cl # NoClient THEN <<cl>> ELSE <<>>

(***************************************************************************)
(* The requests the transport may deliver.                                 *)
(***************************************************************************)
SelectOne == <<"s","e","l","e","c","t"," ","1">>
DropTable == <<"D","R","O","P"," ","T","A","B","L","E"," ","w","e","a","t","h","e","r","_","d","a","t","a">>
SelectThenDrop == <<"S","E","L","E","C","T"," ","1",";"," ","D","R","O","P"," ","T","A","B","L","E"," ","x",";">>
DeleteComment == <<"D","E","L","E","T","E","/","*","*","/","F","R","O","M"," ","x">>
Vacuum == <<"V","A","C","U","U","M">>
PaddedUpdate == <<" "," ","u","p","d","a","t","e"," ","x"," ","s","e","t"," ","y"," ","="," ","1">>
PaddedSelect == <<"\n"," ","S","e","L","e","C","t"," ","1",";"," ","u","p","d","a","t","e"," ","x"," ","s","e","t"," ","y"," ","="," ","1">>
SampleSqls == {<<>>, SelectOne, DropTable, SelectThenDrop, DeleteComment, Vacuum,
               PaddedUpdate, PaddedSelect}

\* the pieces generated SQL texts are concatenated from
Fragments ==
    { <<"D","R","O","P">>,
      <<"d","e","l","e","t","e">>,
      <<"T","r","u","n","c","a","t","e">>,
      <<"A","L","T","E","R">>,
      <<"c","r","e","a","t","e">>,
      <<"I","N","S","E","R","T">>,
      <<"U","p","D","a","T","e">>,
      <<"s","e","l","e","c","t">>,
      <<"S","E","L","E","C","T">>,
      <<" ">>,
      <<"\n">>,
      <<";">>,
      <<"x">>,
      <<"/","*","*","/">> }

RECURSIVE FragTexts(_)
FragTexts(n) ==
    IF n = 0 THEN {<<>>}
    ELSE LET shorter == FragTexts(n - 1)
         IN  shorter \cup {s \o f : s \in shorter, f \in Fragments}

Request(name, args) == [name |-> name, args |-> args]
NoRequest == Request("", NoArgs)

QueryArgs(sql) == [EmptyArgs EXCEPT !.sql = sql]
TableArgs(schema, table, limit) ==
    [EmptyArgs EXCEPT !.schema = schema, !.table = table, !.limit = limit]

OtherSchema == Str(<<"s">>)
TableT == Str(<<"t">>)
TableInjected == Str(<<"t",";","x">>)

QueryRequests ==
    {Request("query_database", QueryArgs(Str(q))) : q \in SampleSqls}
    \cup { Request("query_database", NoArgs),
           Request("query_database", EmptyArgs),
           Request("query_database", QueryArgs(Num(1))),
           Request("query_database", [QueryArgs(Str(SelectOne)) EXCEPT !.params = Num(1)]),
           Request("query_database", [QueryArgs(Str(SelectOne)) EXCEPT !.params = Arr(<<"1">>)]) }

ListRequests ==
    { Request("list_tables", NoArgs),
      Request("list_tables", EmptyArgs),
      Request("list_tables", TableArgs(OtherSchema, Undef, Undef)),
      Request("list_tables", TableArgs(Num(1), Undef, Undef)) }

DescribeRequests ==
    { Request("describe_table", EmptyArgs),
      Request("describe_table", TableArgs(Undef, Str(<<>>), Undef)),
      Request("describe_table", TableArgs(Undef, TableT, Undef)),
      Request("describe_table", TableArgs(OtherSchema, TableT, Undef)),
      Request("describe_table", TableArgs(Undef, Num(1), Undef)) }

TableDataRequests ==
    { Request("get_table_data", EmptyArgs),
      Request("get_table_data", TableArgs(Undef, Str(<<>>), Undef)),
      Request("get_table_data", TableArgs(Undef, TableT, Undef)),
      Request("get_table_data", TableArgs(OtherSchema, TableT, Num(5))),
      Request("get_table_data", TableArgs(Undef, TableT, Num(0))),
      Request("get_table_data", TableArgs(Undef, TableT, Num(-1))),
      Request("get_table_data", TableArgs(Undef, TableT, Str(<<"5">>))),
      Request("get_table_data", TableArgs(Undef, TableInjected, Undef)) }

UnknownRequests == {Request("drop_database", EmptyArgs)}

\* every request shape: each tool with valid and invalid arguments
AllRequests ==
    QueryRequests \cup ListRequests \cup DescribeRequests
    \cup TableDataRequests \cup UnknownRequests

\* query_database with generated SQL texts
GeneratedRequests ==
    {Request("query_database", QueryArgs(Str(q))) : q \in FragTexts(MaxFrags)}

\* the requests of the concurrent specification: one per tool and way to end
Requests ==
    { Request("query_database", QueryArgs(Str(SelectOne))),
      Request("query_database", QueryArgs(Str(DropTable))),
      Request("query_database", QueryArgs(Str(<<>>))),
      Request("list_tables", EmptyArgs),
      Request("describe_table", TableArgs(Undef, TableT, Undef)),
      Request("describe_table", EmptyArgs),
      Request("get_table_data", TableArgs(Undef, TableT, Undef)),
      Request("get_table_data", TableArgs(Undef, TableT, Num(0))) }
    \cup UnknownRequests

TableU == Str(<<"u">>)

\* the requests of the introspection specification: list_tables and
\* describe_table, each with two different schema and table values
TableRequests ==
    { Request("list_tables", EmptyArgs),
      Request("list_tables", TableArgs(OtherSchema, Undef, Undef)),
      Request("describe_table", TableArgs(Undef, TableT, Undef)),
      Request("describe_table", TableArgs(OtherSchema, TableU, Undef)) }

(***************************************************************************)
(* setup-weather-data.ts: the lines of weather.csv and parseCSVLine.       *)
(***************************************************************************)
\* values.length >= 14
MinValues == 14

RECURSIVE ParseFrom(_, _, _, _, _)
ParseFrom(line, i, result, current, inQuotes) ==
    IF i > Len(line)
    THEN Append(result, Trim(current))
    ELSE IF line[i] = "\""
    THEN ParseFrom(line, i + 1, result, current, ~inQuotes)
    ELSE IF line[i] = "," /\ ~inQuotes
    THEN ParseFrom(line, i + 1, Append(result, Trim(current)), <<>>, inQuotes)
    ELSE ParseFrom(line, i + 1, result, Append(current, line[i]), inQuotes)

\* parseCSVLine(line): the fields of a line, commas inside quotes kept
parseCSVLine(line) == ParseFrom(line, 1, <<>>, <<>>, FALSE)

\* sample lines: the header, a line of fourteen values, the same line with
\* its first comma inside quotes (thirteen values), a short line, a blank one
HeaderLine == <<"h">>
FullLine == [k \in 1..27 |-> IF k % 2 = 1 THEN "1" ELSE ","]
QuotedLine == <<"\"">> \o SubSeq(FullLine, 1, 3) \o <<"\"">> \o SubSeq(FullLine, 4, 27)
ShortLine == <<"1", ",", "1">>
BlankLine == <<" ">>
SampleLines == {FullLine, QuotedLine, ShortLine, BlankLine}

RECURSIVE LinesUpTo(_)
LinesUpTo(n) ==
    IF n = 0 THEN {<<>>}
    ELSE LinesUpTo(n - 1)
         \cup {Append(ls, l) : ls \in {x \in LinesUpTo(n - 1) : Len(x) = n - 1},
                               l \in SampleLines}

\* csvContent.split('\n') of the files considered: header first
CsvFiles == {<<HeaderLine>> \o ls : ls \in LinesUpTo(MaxLines)}

\* lines.slice(1).filter(line => line.trim().length > 0)
IsDataLine(line) == Len(Trim(line)) > 0
DataLinesOf(lines) == SelectSeq(Tail(lines), IsDataLine)

\* dataLines.slice(i, i + batchSize + 1): a batch reaching into the next one
BatchOverlapping(dataLines, i) ==
    SubSeq(dataLines, i + 1,
           IF i + BatchSize + 1 < Len(dataLines) THEN i + BatchSize + 1
           ELSE Len(dataLines))

\* dataLines.slice(i, i + batchSize)
Batch(dataLines, i) ==
    SubSeq(dataLines, i + 1,
           IF i + BatchSize < Len(dataLines) THEN i + BatchSize ELSE Len(dataLines))

\* the script before it starts, with the file it will read;
\* processed[k] lists what happened to data line k, in order
InitialSetup(lines) ==
    [ pc |-> "start", lines |-> lines, dataLines |-> <<>>,
      i |-> 0, pos |-> 0,
      recordsInserted |-> 0, recordsSkipped |-> 0,
      processed |-> <<>>, held |-> FALSE, releases |-> 0 ]

(***************************************************************************)
(* The server process: run() and the SIGINT/SIGTERM handlers.              *)
(***************************************************************************)
\* the process when `new PostgresMCPServer()` has returned and run() awaits
\* its test connection; exitCode counts only when exited is TRUE
StartingProcess ==
    [ pc |-> "testing", transport |-> FALSE,
      testAcquired |-> 0, testReleased |-> 0, testFailed |-> FALSE,
      signals |-> <<>>, endCalls |-> 0, endCompleted |-> FALSE,
      endRejections |-> 0, exited |-> FALSE, exitCode |-> 0 ]

\* the process when run() has returned: serving on stdio
RunningProcess ==
    [ StartingProcess EXCEPT !.pc = "running", !.transport = TRUE,
                             !.testAcquired = 1, !.testReleased = 1 ]

(***************************************************************************)
(* validate-weather.ts: validateWeatherData.                               *)
(***************************************************************************)
\* the function before its first await, with the pool it has created;
\* path lists the awaits passed and how each ended
InitialValidation ==
    [ pc |-> "connect", held |-> FALSE, acquired |-> 0, releases |-> 0,
      endCalls |-> 0, path |-> <<>> ]

(***************************************************************************)
(* Events and the steps of a call.                                         *)
(***************************************************************************)
\* what the database answered: a result, or the error it raised
Answer(res, err) == [result |-> res, error |-> err]
NoAnswer == Answer(NoResult, DriverError(<<>>))

\* a step of a call; `at` is the state of the catalog an answer was computed in
Ev(e) == [e |-> e, sql |-> <<>>, params |-> <<>>, cl |-> NoClient, ans |-> NoAnswer,
          at |-> 0]
ClientEv(e, cl) == [Ev(e) EXCEPT !.cl = cl]
QueryEv(q, cl) == [Ev("query") EXCEPT !.sql = q.sql, !.params = q.params, !.cl = cl]
AnswerEv(e, cl, ans) == [Ev(e) EXCEPT !.cl = cl, !.ans = ans, !.at = schemaChanges]

\* `client` kept in a field of the server object, shared by all calls:
\* a call that has none of its own sees the one another call has set
SharedClient(c) ==
    LET held == {client[d] : d \in {e \in Calls : pc[e] = "query"}}
    IN  IF client[c] # NoClient THEN client[c]
        ELSE IF held # {} THEN CHOOSE cl \in held : TRUE
        ELSE NoClient

\* the handler's local variable `client`
LocalClient(c) == client[c]

Count(c, e) == Cardinality({i \in DOMAIN log[c] : log[c][i].e = e})

\* the query the call is waiting for
LastQuery(c) ==
    LET idx == {i \in DOMAIN log[c] : log[c][i].e = "query"}
    IN  log[c][CHOOSE i \in idx : \A j \in idx : j <= i]

\* the server before any request: no call, all clients idle
ServerInit ==
    /\ pc = [c \in Calls |-> "idle"]
    /\ req = [c \in Calls |-> NoRequest]
    /\ client = [c \in Calls |-> NoClient]
    /\ firstResult = [c \in Calls |-> NoResult]
    /\ log = [c \in Calls |-> <<>>]
    /\ outcomes = [c \in Calls |-> <<>>]
    /\ idleClients = Clients
    /\ tables = InitialTables
    /\ schemaChanges = 0

Init ==
    /\ ServerInit
    /\ setup = InitialSetup(<<HeaderLine>>)
    /\ process = RunningProcess
    /\ validation = InitialValidation

(***************************************************************************)
(* The synchronous start of a call: the dispatcher's switch and the        *)
(* handler up to its first await.                                          *)
(***************************************************************************)
\* a handler that asks the pool for a connection before it runs the guard
EntryStepsConnectFirst(name, args) ==
    IF name \notin ToolNames
    THEN [log |-> <<>>, thrown |-> <<MethodNotFoundError(name)>>]
    ELSE IF ~ValidationOk(name, args)
    THEN [log |-> <<Ev("validate")>>, thrown |-> <<InvalidParamsError>>]
    ELSE IF name = "query_database" /\ GuardRejects(SqlOf(args))
    THEN [log |-> <<Ev("validate"), Ev("connect"), Ev("guard")>>, thrown |-> <<GuardError>>]
    ELSE [log |-> <<Ev("validate"), Ev("connect")>>
                  \o (IF name = "query_database" THEN <<Ev("guard")>> ELSE <<>>),
          thrown |-> <<>>]

EntrySteps(name, args) ==
    IF name \notin ToolNames
    THEN [log |-> <<>>, thrown |-> <<MethodNotFoundError(name)>>]
    ELSE IF ~ValidationOk(name, args)
    THEN [log |-> <<Ev("validate")>>, thrown |-> <<InvalidParamsError>>]
    ELSE IF name = "query_database" /\ GuardRejects(SqlOf(args))
    THEN [log |-> <<Ev("validate"), Ev("guard")>>, thrown |-> <<GuardError>>]
    ELSE [log |-> <<Ev("validate")>>
                  \o (IF name = "query_database" THEN <<Ev("guard")>> ELSE <<>>)
                  \o <<Ev("connect")>>,
          thrown |-> <<>>]

\* the call ends: the finally block has released `released`, `out` goes back
Settle(c, steps, released, out) ==
    /\ pc' = [pc EXCEPT ![c] = "done"]
    /\ log' = [log EXCEPT ![c] =
                 @ \o steps \o [i \in DOMAIN released |-> ClientEv("release", released[i])]]
    /\ idleClients' = idleClients \cup Range(released)
    /\ outcomes' = [outcomes EXCEPT ![c] = @ \o out]

\* the CallTool handler is invoked with request r
CallTool(c, r) ==
    /\ pc[c] = "idle"
    /\ req' = [req EXCEPT ![c] = r]
    /\ LET entry == EntrySteps(r.name, r.args)
       IN  IF entry.thrown # <<>>
           THEN Settle(c, entry.log, <<>>, DispatcherCatch(r.name, entry.thrown[1]))
           ELSE /\ pc' = [pc EXCEPT ![c] = "connect"]
                /\ log' = [log EXCEPT ![c] = entry.log]
                /\ UNCHANGED <<idleClients, outcomes>>
    /\ UNCHANGED <<client, firstResult, tables, schemaChanges, scripts>>

\* a describeTable that sends both queries at once (Promise.all)
ConnectResolveParallel(c) ==
    /\ pc[c] = "connect"
    /\ \E cl \in idleClients :
         /\ idleClients' = idleClients \ {cl}
         /\ client' = [client EXCEPT ![c] = cl]
         /\ log' = [log EXCEPT ![c] =
                      @ \o <<ClientEv("acquired", cl),
                             QueryEv(FirstQuery(req[c].name, req[c].args), cl)>>
                        \o (IF req[c].name = "describe_table"
                            THEN <<QueryEv(SecondQuery(req[c].args), cl)>>
                            ELSE <<>>)]
    /\ pc' = [pc EXCEPT ![c] = "query"]
    /\ UNCHANGED <<req, firstResult, outcomes, tables, schemaChanges, scripts>>

\* await this.pool.connect() resolves; the handler issues its first query
ConnectResolve(c) ==
    /\ pc[c] = "connect"
    /\ \E cl \in idleClients :
         /\ idleClients' = idleClients \ {cl}
         /\ client' = [client EXCEPT ![c] = cl]
         /\ log' = [log EXCEPT ![c] =
                      @ \o <<ClientEv("acquired", cl),
                             QueryEv(FirstQuery(req[c].name, req[c].args), cl)>>]
    /\ pc' = [pc EXCEPT ![c] = "query"]
    /\ UNCHANGED <<req, firstResult, outcomes, tables, schemaChanges, scripts>>

\* await this.pool.connect() rejects
ConnectReject(c) ==
    /\ pc[c] = "connect"
    /\ \E err \in ConnectErrors :
         Settle(c, <<AnswerEv("connectRejected", NoClient, Answer(NoResult, err))>>,
                FinallyReleases(LocalClient(c)), DispatcherCatch(req[c].name, err))
    /\ UNCHANGED <<req, client, firstResult, tables, schemaChanges, scripts>>

\* a describeTable that asks the pool for a second client for its second
\* query while it holds the first
QueryResolveSecondClient(c) ==
    /\ pc[c] = "query"
    /\ \E res \in ResultsFor(LastQuery(c)) :
         IF req[c].name = "describe_table" /\ Count(c, "query") = 1
         THEN /\ firstResult' = [firstResult EXCEPT ![c] = res]
              /\ log' = [log EXCEPT ![c] =
                           @ \o <<AnswerEv("queryResolved", LocalClient(c),
                                           Answer(res, DriverError(<<>>))),
                                  Ev("connect")>>]
              /\ pc' = [pc EXCEPT ![c] = "connect"]
              /\ UNCHANGED <<idleClients, outcomes>>
         ELSE /\ Settle(c, <<AnswerEv("queryResolved", LocalClient(c),
                                      Answer(res, DriverError(<<>>))),
                             Ev("serialize")>>,
                        FinallyReleases(LocalClient(c)),
                        <<Returned(Envelope(Payload(req[c].name, req[c].args,
                                                    firstResult[c], res)))>>)
              /\ UNCHANGED firstResult
    /\ UNCHANGED <<req, client, tables, schemaChanges, scripts>>

\* await client.query(...) resolves with res
QueryResolve(c) ==
    /\ pc[c] = "query"
    /\ \E res \in ResultsFor(LastQuery(c)) :
         IF req[c].name = "describe_table" /\ Count(c, "query") = 1
         THEN /\ firstResult' = [firstResult EXCEPT ![c] = res]
              /\ log' = [log EXCEPT ![c] =
                           @ \o <<AnswerEv("queryResolved", LocalClient(c),
                                           Answer(res, DriverError(<<>>))),
                                  QueryEv(SecondQuery(req[c].args), LocalClient(c))>>]
              /\ UNCHANGED <<pc, idleClients, outcomes>>
         ELSE /\ Settle(c, <<AnswerEv("queryResolved", LocalClient(c),
                                      Answer(res, DriverError(<<>>))),
                             Ev("serialize")>>,
                        FinallyReleases(LocalClient(c)),
                        <<Returned(Envelope(Payload(req[c].name, req[c].args,
                                                    firstResult[c], res)))>>)
              /\ UNCHANGED firstResult
    /\ UNCHANGED <<req, client, tables, schemaChanges, scripts>>

\* a handler that sends the failed query once more before giving up
QueryRejectRetryOnce(c) ==
    /\ pc[c] = "query"
    /\ \E err \in QueryErrors :
         IF Count(c, "queryRejected") = 0
         THEN /\ log' = [log EXCEPT ![c] =
                           @ \o <<AnswerEv("queryRejected", LocalClient(c),
                                           Answer(NoResult, err)),
                                  QueryEv(FirstQuery(req[c].name, req[c].args),
                                          LocalClient(c))>>]
              /\ UNCHANGED <<pc, idleClients, outcomes>>
         ELSE Settle(c, <<AnswerEv("queryRejected", LocalClient(c), Answer(NoResult, err))>>,
                     FinallyReleases(LocalClient(c)), DispatcherCatch(req[c].name, err))
    /\ UNCHANGED <<req, client, firstResult, tables, schemaChanges, scripts>>

\* a handler that answers a failed query with what it has so far
QueryRejectPartial(c) ==
    /\ pc[c] = "query"
    /\ \E err \in QueryErrors :
         Settle(c, <<AnswerEv("queryRejected", LocalClient(c), Answer(NoResult, err))>>,
                FinallyReleases(LocalClient(c)),
                <<Returned(Envelope(Payload(req[c].name, req[c].args,
                                            firstResult[c], NoResult)))>>)
    /\ UNCHANGED <<req, client, firstResult, tables, schemaChanges, scripts>>

\* await client.query(...) rejects
QueryReject(c) ==
    /\ pc[c] = "query"
    /\ \E err \in QueryErrors :
         Settle(c, <<AnswerEv("queryRejected", LocalClient(c), Answer(NoResult, err))>>,
                FinallyReleases(LocalClient(c)), DispatcherCatch(req[c].name, err))
    /\ UNCHANGED <<req, client, firstResult, tables, schemaChanges, scripts>>

\* the transport delivers a request while other calls are in flight
Receive(c) ==
    /\ pc[c] = "idle"
    /\ \E r \in Requests : CallTool(c, r)

Next ==
    \E c \in Calls :
        \/ Receive(c)
        \/ ConnectResolve(c)
        \/ ConnectReject(c)
        \/ QueryResolve(c)
        \/ QueryReject(c)

\* concurrent calls sharing the pool
Spec == Init /\ [][Next]_vars

\* the transport delivers one request, of any shape
ReceiveAny ==
    /\ pc[1] = "idle"
    /\ \E r \in AllRequests : CallTool(1, r)

\* the transport delivers one query_database request with a generated SQL text
ReceiveGenerated ==
    /\ pc[1] = "idle"
    /\ \E r \in GeneratedRequests : CallTool(1, r)

CallNext ==
    \/ ReceiveAny
    \/ ReceiveGenerated
    \/ ConnectResolve(1)
    \/ ConnectReject(1)
    \/ QueryResolve(1)
    \/ QueryReject(1)

\* one call, every request shape and every generated SQL text
CallSpec == Init /\ [][CallNext]_vars

(***************************************************************************)
(* Properties.                                                             *)
(***************************************************************************)
Done(c) == pc[c] = "done"
IsResponse(o) ==
    /\ o.kind = "response"
    /\ Len(o.envelope.content) = 1
    /\ o.envelope.content[1].type = "text"
IsMcpError(o) ==
    /\ o.kind = "error"
    /\ o.error.mcp
    /\ o.error.code \in {"InvalidParams", "MethodNotFound", "InternalError"}
FailedWith(c, code) ==
    /\ Done(c)
    /\ Len(outcomes[c]) = 1
    /\ IsMcpError(outcomes[c][1])
    /\ outcomes[c][1].error.code = code
Succeeded(c) ==
    /\ Done(c)
    /\ Len(outcomes[c]) = 1
    /\ IsResponse(outcomes[c][1])

\* C1: every call that has ended handed back exactly one outcome, a response
\* envelope or an McpError (never both, never neither), and a call still in
\* flight has handed back nothing.
C1_ExactlyOneOutcome ==
    \A c \in Calls :
        /\ Done(c) =>
             /\ Len(outcomes[c]) = 1
             /\ IsResponse(outcomes[c][1]) \/ IsMcpError(outcomes[c][1])
             /\ ~(IsResponse(outcomes[c][1]) /\ IsMcpError(outcomes[c][1]))
        /\ ~Done(c) => outcomes[c] = <<>>

\* a call whose query the database refused has ended with its one McpError
C1_Witness ==
    /\ Done(1)
    /\ Count(1, "query") = 1
    /\ Len(outcomes[1]) = 1
    /\ IsMcpError(outcomes[1][1])

Holding == {client[c] : c \in {d \in Calls : pc[d] = "query"}}

\* C2: in each of the four handlers a call acquires at most one connection,
\* releases only the connection it acquired and at most once, has released it
\* exactly once when the call has ended (also when a query raised), and the
\* pool holds exactly the clients no running call has; so once all calls
\* have ended acquisitions equal releases and the pool is full again.
C2_ReleasedExactlyOnce ==
    /\ \A c \in Calls :
         /\ Count(c, "acquired") <= 1
         /\ Count(c, "release") <= Count(c, "acquired")
         /\ Done(c) => Count(c, "release") = Count(c, "acquired")
         /\ \A i \in DOMAIN log[c] :
              log[c][i].e = "release" => log[c][i].cl = client[c]
    /\ idleClients = Clients \ Holding
    /\ (\A c \in Calls : Done(c)) => idleClients = Clients

\* two calls have ended, each after acquiring a connection, one of them
\* because its query raised, and each released once
C2_Witness ==
    /\ \A c \in Calls : Done(c) /\ Count(c, "acquired") = 1 /\ Count(c, "release") = 1
    /\ \E c \in Calls : FailedWith(c, "InternalError") /\ Count(c, "query") >= 1
    /\ \E c \in Calls : req[c].name = "describe_table" /\ Count(c, "query") = 2
    /\ idleClients = Clients

\* the call is a query_database call whose sql argument is a string
IsSqlCall(c) ==
    /\ req[c].name = "query_database"
    /\ req[c].args.obj
    /\ req[c].args.sql.t = "string"
SqlArg(c) == req[c].args.sql.s

SelectUpper == <<"S","E","L","E","C","T">>

\* after leading whitespace the text reads s-e-l-e-c-t in any letter case
ReadsAsSelect(sql) ==
    \E k \in 0..Len(sql) :
        /\ \A j \in 1..k : sql[j] \in SpaceChars
        /\ k + Len(SelectWord) <= Len(sql)
        /\ \A j \in DOMAIN SelectWord : sql[k + j] \in {SelectWord[j], SelectUpper[j]}

\* one of the seven keywords stands in the text as a whole word, in any case
ContainsKeyword(sql) ==
    \E i \in DOMAIN sql : \E kw \in DangerousKeywords :
        /\ i + Len(kw) - 1 <= Len(sql)
        /\ \A j \in DOMAIN kw : ToLowerChar(sql[i + j - 1]) = kw[j]
        /\ i = 1 \/ ~IsWordChar(sql[i - 1])
        /\ i + Len(kw) - 1 = Len(sql) \/ ~IsWordChar(sql[i + Len(kw)])

\* C3: every SQL text that contains one of DROP, DELETE, TRUNCATE, ALTER,
\* CREATE, INSERT, UPDATE as a keyword (any case) and does not begin with
\* select is rejected by the guard: no connection is asked for and the call
\* ends with InvalidParams "Only SELECT queries are allowed ...".
C3_KeywordTextRejected ==
    \A c \in Calls :
        (IsSqlCall(c) /\ ContainsKeyword(SqlArg(c)) /\ ~ReadsAsSelect(SqlArg(c))) =>
            /\ Count(c, "connect") = 0
            /\ Done(c) => outcomes[c] = <<Thrown(GuardError)>>

C5_OnlySelectExecuted ==
    \A c \in Calls :
        (req[c].name = "query_database" /\ ~(IsSqlCall(c) /\ ReadsAsSelect(SqlArg(c)))) =>
            /\ Count(c, "query") = 0
            /\ Done(c) => FailedWith(c, "InvalidParams")

\* the arguments do not satisfy QuerySchema: no object, sql missing, not a
\* string or empty, or params present and not an array
BadQueryArgs(args) ==
    \/ ~args.obj
    \/ args.sql.t # "string"
    \/ args.sql = Str(<<>>)
    \/ args.params.t \notin {"undefined", "array"}

\* C6: a query_database call whose sql is the empty string, or whose
\* arguments otherwise fail QuerySchema, ends with InvalidParams (the zod
\* message) and no pool.connect() is made during it.
C6_EmptySqlInvalidParams ==
    \A c \in Calls :
        (req[c].name = "query_database" /\ BadQueryArgs(req[c].args)) =>
            /\ Done(c)
            /\ outcomes[c] = <<Thrown(InvalidParamsError)>>
            /\ FailedWith(c, "InvalidParams")
            /\ Count(c, "connect") = 0
            /\ Count(c, "acquired") = 0

\* the call with sql = "" has ended with InvalidParams, nothing asked of the pool
C6_Witness ==
    /\ IsSqlCall(1)
    /\ SqlArg(1) = <<>>
    /\ FailedWith(1, "InvalidParams")
    /\ Count(1, "connect") = 0

\* C7: a query_database call whose sql the guard rejects, 'DROP TABLE
\* weather_data' among them, ends with InvalidParams carrying the guard's
\* message, with no pool.connect() and no client.query() during the call.
C7_RejectedNeverExecutes ==
    \A c \in Calls :
        (IsSqlCall(c) /\ ~BadQueryArgs(req[c].args)
           /\ (SqlArg(c) = DropTable \/ GuardRejects(SqlArg(c)))) =>
            /\ Done(c)
            /\ outcomes[c] = <<Thrown(GuardError)>>
            /\ FailedWith(c, "InvalidParams")
            /\ Count(c, "connect") = 0
            /\ Count(c, "acquired") = 0
            /\ Count(c, "query") = 0

\* 'DROP TABLE weather_data' has been rejected with the pool untouched
C7_Witness ==
    /\ IsSqlCall(1)
    /\ SqlArg(1) = DropTable
    /\ FailedWith(1, "InvalidParams")
    /\ Count(1, "connect") = 0
    /\ Count(1, "query") = 0
    /\ idleClients = Clients

\* C8: a describe_table call whose table is missing or the empty string
\* ends with InvalidParams and no connection is asked for.
C8_DescribeEmptyTableRejected ==
    \A c \in Calls :
        (req[c].name = "describe_table"
           /\ req[c].args.table \in {Undef, Str(<<>>)}) =>
            /\ Count(c, "connect") = 0
            /\ Done(c) => FailedWith(c, "InvalidParams")

\* C9: a get_table_data call whose table is the empty string or whose limit
\* is zero or negative ends with InvalidParams and no connection is asked
\* for; a call that omits limit and reaches the database binds 10 as $1.
C9_TableDataValidation ==
    \A c \in Calls :
        req[c].name = "get_table_data" =>
            /\ (\/ req[c].args.table = Str(<<>>)
                \/ req[c].args.limit.t = "number" /\ req[c].args.limit.n <= 0) =>
                   /\ Done(c)
                   /\ outcomes[c] = <<Thrown(InvalidParamsError)>>
                   /\ Count(c, "connect") = 0
                   /\ Count(c, "acquired") = 0
            /\ req[c].args.limit = Undef =>
                   /\ \A i \in DOMAIN log[c] :
                        log[c][i].e = "query" => log[c][i].params = <<10>>
                   /\ Succeeded(c) => outcomes[c][1].envelope.content[1].text.limit = 10

\* limit = 0 has been refused with InvalidParams before any connection
C9_Witness ==
    /\ req[1].name = "get_table_data"
    /\ req[1].args.limit = Num(0)
    /\ req[1].args.table = TableT
    /\ FailedWith(1, "InvalidParams")
    /\ Count(1, "connect") = 0

\* the driver error behind an InternalError: the connect error when no
\* connection was acquired, a query error otherwise
CauseOf(c) == IF Count(c, "acquired") = 0 THEN ConnectErrors ELSE QueryErrors

\* C10: a failed call carries one of three error kinds, fixed by its cause:
\* MethodNotFound for a name that is none of the four tools (no connection
\* asked for); the handler's own InvalidParams error, unchanged, when
\* validation or the guard stopped the call before pool.connect();
\* InternalError "Failed to execute <name>: <driver message>" when
\* pool.connect() or a query raised.
C10_ErrorKindByCause ==
    \A c \in Calls :
        /\ (req[c] # NoRequest /\ req[c].name \notin ToolNames) =>
               /\ Done(c)
               /\ outcomes[c] = <<Thrown(MethodNotFoundError(req[c].name))>>
               /\ Count(c, "connect") = 0
        /\ (Done(c) /\ ~Succeeded(c) /\ req[c].name \in ToolNames) =>
               /\ Len(outcomes[c]) = 1
               /\ IF Count(c, "connect") = 0
                  THEN /\ outcomes[c][1] \in {Thrown(InvalidParamsError), Thrown(GuardError)}
                       /\ FailedWith(c, "InvalidParams")
                  ELSE /\ FailedWith(c, "InternalError")
                       /\ \E err \in CauseOf(c) :
                            outcomes[c][1].error.message =
                                <<"Failed to execute ", req[c].name, ": ">> \o err.message

\* a call has ended with InternalError carrying the query's error message
C10_Witness ==
    /\ FailedWith(1, "InternalError")
    /\ Count(1, "query") = 2
    /\ \E err \in QueryErrors :
         outcomes[1][1].error.message =
             <<"Failed to execute ", "describe_table", ": ">> \o err.message

Rejections == {"connectRejected", "queryRejected"}
DatabaseCalls == {"connect", "query"}

\* C11: no retries: once pool.connect() or a client.query() of a call has
\* raised, the call has ended with InternalError and nothing but the release
\* of its connection follows the rejection in its steps (no further
\* pool.connect(), no further client.query()); a query_database, list_tables
\* or get_table_data call whose query raised sent exactly one query.
C11_NoRetries ==
    \A c \in Calls : \A i \in DOMAIN log[c] :
        log[c][i].e \in Rejections =>
            /\ FailedWith(c, "InternalError")
            /\ \A j \in DOMAIN log[c] : j > i => log[c][j].e = "release"
            /\ Count(c, "connectRejected") + Count(c, "queryRejected") = 1
            /\ Count(c, "connect") = 1
            /\ log[c][i].e = "connectRejected" => Count(c, "query") = 0
            /\ (log[c][i].e = "queryRejected" /\ req[c].name # "describe_table") =>
                   Count(c, "query") = 1

\* a list_tables call whose only query raised has ended with InternalError
C11_Witness ==
    /\ req[1].name = "list_tables"
    /\ Count(1, "queryRejected") = 1
    /\ Count(1, "query") = 1
    /\ FailedWith(1, "InternalError")

\* C12: no partial results: a call one of whose queries raised hands back
\* its error only, never an envelope; so a describe_table call whose columns
\* query returned rows and whose constraints query raised returns no columns.
C12_NoPartialResults ==
    \A c \in Calls :
        Count(c, "queryRejected") >= 1 =>
            /\ Done(c)
            /\ Len(outcomes[c]) = 1
            /\ outcomes[c][1].kind = "error"
            /\ ~IsResponse(outcomes[c][1])
            /\ outcomes[c][1].envelope = Envelope(<<>>)

\* columns came back with a row, the constraints query raised, error only
C12_Witness ==
    /\ req[1].name = "describe_table"
    /\ Count(1, "query") = 2
    /\ Count(1, "queryRejected") = 1
    /\ firstResult[1].rows # <<>>
    /\ FailedWith(1, "InternalError")

\* the transport delivers a list_tables or describe_table request
ReceiveTable(c) ==
    /\ pc[c] = "idle"
    /\ \E r \in TableRequests : CallTool(c, r)

TableNext ==
    \E c \in Calls :
        \/ ReceiveTable(c)
        \/ ConnectResolve(c)
        \/ ConnectReject(c)
        \/ QueryResolve(c)
        \/ QueryReject(c)

\* concurrent list_tables and describe_table calls
TableSpec == Init /\ [][TableNext]_vars

\* list_tables for the default schema and for a named one
CatalogRequests ==
    { Request("list_tables", EmptyArgs),
      Request("list_tables", TableArgs(OtherSchema, Undef, Undef)) }

ReceiveList(c) ==
    /\ pc[c] = "idle"
    /\ \E r \in CatalogRequests : CallTool(c, r)

\* another session creates or drops a table
SchemaChange ==
    /\ schemaChanges < MaxSchemaChanges
    /\ \E t \in CatalogTables :
         tables' = IF t \in tables THEN tables \ {t} ELSE tables \cup {t}
    /\ schemaChanges' = schemaChanges + 1
    /\ UNCHANGED <<pc, req, client, firstResult, log, outcomes, idleClients, scripts>>

ListNext ==
    \/ \E c \in Calls :
           \/ ReceiveList(c)
           \/ ConnectResolve(c)
           \/ ConnectReject(c)
           \/ QueryResolve(c)
           \/ QueryReject(c)
    \/ SchemaChange

\* concurrent list_tables calls while the catalog changes
ListSpec == Init /\ [][ListNext]_vars

\* the queries a call has sent, in order
IsQueryEv(ev) == ev.e = "query"
QueriesSent(c) == SelectSeq(log[c], IsQueryEv)

\* the schema value bound as a parameter: the argument, 'public' when omitted
SchemaBound(c) ==
    IF req[c].args.schema = Undef
    THEN <<"p","u","b","l","i","c">>
    ELSE req[c].args.schema.s

\* C13: the SQL text list_tables and describe_table send does not depend on
\* the arguments: the k-th query of any two calls of the same tool carries
\* the same text, whatever their schema and table values, and the values go
\* in the parameter list only: [schema] for list_tables, [schema, table] for
\* both queries of describe_table, with schema 'public' when omitted.
C13_FixedParameterizedSql ==
    \A c \in Calls :
        req[c].name \in {"list_tables", "describe_table"} =>
            /\ \A d \in Calls :
                 req[d].name = req[c].name =>
                     \A k \in DOMAIN QueriesSent(c) \cap DOMAIN QueriesSent(d) :
                         QueriesSent(c)[k].sql = QueriesSent(d)[k].sql
            /\ \A k \in DOMAIN QueriesSent(c) :
                 QueriesSent(c)[k].params =
                     IF req[c].name = "list_tables"
                     THEN <<SchemaBound(c)>>
                     ELSE <<SchemaBound(c), req[c].args.table.s>>

\* two describe_table calls with different schema and table have each sent
\* both queries: same texts, different parameter lists
C13_Witness ==
    /\ \A c \in Calls : req[c].name = "describe_table" /\ Len(QueriesSent(c)) = 2
    /\ req[1].args.schema # req[2].args.schema
    /\ req[1].args.table # req[2].args.table
    /\ QueriesSent(1)[1].sql = QueriesSent(2)[1].sql
    /\ QueriesSent(1)[2].sql = QueriesSent(2)[2].sql
    /\ QueriesSent(1)[2].params # QueriesSent(2)[2].params

\* the text matches ^[A-Za-z_][A-Za-z0-9_]*$
IsIdentifier(text) ==
    /\ Len(text) >= 1
    /\ text[1] \in WordChars \ DigitChars
    /\ \A i \in DOMAIN text : text[i] \in WordChars

\* C14: get_table_data puts a schema or table value into the SQL text only
\* when it is an identifier (^[A-Za-z_][A-Za-z0-9_]*$): a call whose schema
\* or table holds any other character never reaches client.query.
C14_OnlyIdentifiersInterpolated ==
    \A c \in Calls :
        (/\ req[c].name = "get_table_data"
         /\ \/ req[c].args.table.t = "string" /\ ~IsIdentifier(req[c].args.table.s)
            \/ req[c].args.schema.t = "string" /\ ~IsIdentifier(req[c].args.schema.s)) =>
            Count(c, "query") = 0

\* C15: every successful query_database call returns an envelope with one
\* content item of type text whose payload has exactly the keys rows,
\* rowCount and fields, also for zero rows and for a driver result that
\* carries no field list.
C15_QueryPayloadKeys ==
    \A c \in Calls :
        (req[c].name = "query_database" /\ Succeeded(c)) =>
            /\ Len(outcomes[c][1].envelope.content) = 1
            /\ outcomes[c][1].envelope.content[1].type = "text"
            /\ DOMAIN outcomes[c][1].envelope.content[1].text
                   = {"rows", "rowCount", "fields"}

\* what the database answered to the call's own connect and queries
AnswersOf(c) ==
    LET idx == {i \in DOMAIN log[c] :
                    log[c][i].e \in {"connectRejected", "queryResolved", "queryRejected"}}
        nth(k) == CHOOSE i \in idx : Cardinality({j \in idx : j <= i}) = k
    IN  [k \in 1..Cardinality(idx) |-> log[c][nth(k)].ans]

StoppedByGuard(c) == Count(c, "guard") = 1 /\ Count(c, "connect") = 0

StepRank(e) ==
    CASE e = "validate" -> 1
      [] e = "guard" -> 2
      [] e \in {"connect", "acquired", "connectRejected"} -> 3
      [] e \in {"query", "queryResolved", "queryRejected"} -> 4
      [] e = "serialize" -> 5
      [] e = "release" -> 6

StepKinds(c) == [i \in DOMAIN log[c] |-> log[c][i].e]

\* C19: within every call the steps come in the order validate, guard (only
\* for query_database), acquire, execute, serialize, release, return: no step
\* precedes a step of lower rank, a connection is asked for only after
\* validation and (for query_database) the guard, a call refused with
\* InvalidParams took no step after validation and guard, an outcome is
\* handed back only when every acquired connection has been released, and a
\* successful call went through every step.
C19_StepOrder ==
    \A c \in Calls :
        /\ \A i, j \in DOMAIN log[c] :
              i < j => StepRank(log[c][i].e) <= StepRank(log[c][j].e)
        /\ Count(c, "guard") >= 1 => req[c].name = "query_database"
        /\ Count(c, "connect") >= 1 =>
              /\ log[c][1].e = "validate"
              /\ req[c].name = "query_database" =>
                    (log[c][2].e = "guard" /\ log[c][3].e = "connect")
              /\ req[c].name # "query_database" => log[c][2].e = "connect"
        /\ FailedWith(c, "InvalidParams") =>
              \A i \in DOMAIN log[c] : log[c][i].e \in {"validate", "guard"}
        /\ outcomes[c] # <<>> =>
              /\ Done(c)
              /\ Count(c, "acquired") = Count(c, "release")
        /\ Succeeded(c) =>
              /\ Count(c, "validate") = 1 /\ Count(c, "connect") = 1
              /\ Count(c, "acquired") = 1 /\ Count(c, "query") >= 1
              /\ Count(c, "serialize") = 1 /\ Count(c, "release") = 1
              /\ log[c][Len(log[c])].e = "release"
              /\ log[c][Len(log[c]) - 1].e = "serialize"

\* a query_database call went through all the steps and returned
C19_Witness ==
    /\ Succeeded(1) /\ req[1].name = "query_database"
    /\ StepKinds(1) = <<"validate", "guard", "connect", "acquired", "query",
                        "queryResolved", "serialize", "release">>

\* C20: a successful describe_table call acquires exactly one connection
\* and issues exactly two queries on it, the columns query first and the
\* constraints query only after the columns query has resolved, both with
\* parameters [schema, table]; the connection is released only after both;
\* and when the columns query fails the constraints query is never issued.
C20_DescribeTwoQueriesInOrder ==
    \A c \in Calls :
        req[c].name = "describe_table" =>
            /\ Succeeded(c) =>
                 /\ StepKinds(c) = <<"validate", "connect", "acquired",
                                     "query", "queryResolved",
                                     "query", "queryResolved",
                                     "serialize", "release">>
                 /\ log[c][4].sql = ColumnsSql
                 /\ log[c][6].sql = ConstraintsSql
                 /\ \A i \in {4, 6} :
                      log[c][i].params = <<SchemaBound(c), req[c].args.table.s>>
                 /\ \A i \in {4, 5, 6, 7, 9} : log[c][i].cl = log[c][3].cl
                 /\ log[c][3].cl \in Clients
            /\ Count(c, "query") <= 2
            /\ \A i \in DOMAIN log[c] :
                 (log[c][i].e = "query" /\ log[c][i].sql = ConstraintsSql) =>
                     \E j \in 1..(i - 1) :
                         /\ log[c][j].e = "queryResolved"
                         /\ \E k \in 1..(j - 1) :
                              log[c][k].e = "query" /\ log[c][k].sql = ColumnsSql
            /\ (Count(c, "queryRejected") >= 1 /\ Count(c, "queryResolved") = 0) =>
                   /\ Count(c, "query") = 1
                   /\ \A i \in DOMAIN log[c] : log[c][i].sql # ConstraintsSql
            /\ \A i, j \in DOMAIN log[c] :
                 (log[c][i].e = "release" /\ i < j) => log[c][j].e = "release"

\* describe_table with a schema and a table answered after both queries
C20_Witness ==
    /\ req[1].name = "describe_table" /\ Succeeded(1)
    /\ req[1].args.schema # Undef
    /\ Count(1, "query") = 2 /\ Count(1, "queryResolved") = 2

\* the columns query of a describe_table failed and the call ended
C20_ColumnsFailedWitness ==
    /\ req[1].name = "describe_table" /\ Done(1)
    /\ Count(1, "queryRejected") = 1 /\ Count(1, "queryResolved") = 0

\* the catalog state the call's query was answered in
AnsweredAt(c) ==
    LET i == CHOOSE k \in DOMAIN log[c] : log[c][k].e = "queryResolved"
    IN  log[c][i].at

\* the `tables` array of a list_tables response
TablesListed(c) == outcomes[c][1].envelope.content[1].text.tables

ListedOk(c) == req[c].name = "list_tables" /\ Succeeded(c)

\* C18: a list_tables response holds the tables of the requested schema,
\* sorted ascending by table name; two list_tables calls with the same schema
\* answered with no catalog change in between return identical responses; and
\* no step of a call changes the catalog.
C18_ListTablesSortedIdempotent ==
    /\ [](\A c \in Calls :
            ListedOk(c) =>
                /\ \A i, j \in DOMAIN TablesListed(c) :
                     i < j => NameLess(TablesListed(c)[i].table_name,
                                       TablesListed(c)[j].table_name)
                /\ AnsweredAt(c) = schemaChanges =>
                     {TablesListed(c)[i].table_name : i \in DOMAIN TablesListed(c)}
                       = {t.table_name :
                            t \in {x \in tables : x.table_schema = SchemaBound(c)}}
                /\ \A d \in Calls :
                     (/\ ListedOk(d)
                      /\ SchemaBound(c) = SchemaBound(d)
                      /\ AnsweredAt(c) = AnsweredAt(d)) =>
                         outcomes[c] = outcomes[d])
    /\ [][(\E c \in Calls : log'[c] # log[c]) =>
              (tables' = tables /\ schemaChanges' = schemaChanges)]_vars

\* after a catalog change two calls listed the same schema, three tables
\* each, with the same response
C18_Witness ==
    /\ ListedOk(1) /\ ListedOk(2)
    /\ SchemaBound(1) = SchemaBound(2)
    /\ AnsweredAt(1) = 1 /\ AnsweredAt(2) = 1
    /\ Len(TablesListed(1)) = 3
    /\ outcomes[1] = outcomes[2]

\* a catalog change between two calls for the same schema: different responses
C18_ChangedWitness ==
    /\ ListedOk(1) /\ ListedOk(2)
    /\ SchemaBound(1) = SchemaBound(2)
    /\ AnsweredAt(1) # AnsweredAt(2)
    /\ outcomes[1] # outcomes[2]

(***************************************************************************)
(* setup-weather-data.ts: setupWeatherData, a process of its own with its  *)
(* own pool.                                                               *)
(***************************************************************************)
server == <<pc, req, client, firstResult, log, outcomes, idleClients>>

WeatherTable ==
    [table_schema |-> <<"p","u","b","l","i","c">>,
     table_name |-> <<"w","e","a","t","h","e","r","_","d","a","t","a">>]

\* the catch block rethrows and the finally block releases the client
SetupFails == [setup EXCEPT !.pc = "failed", !.held = FALSE, !.releases = @ + 1]

\* const client = await pool.connect(), before the try block
SetupConnect ==
    /\ setup.pc = "start"
    /\ \/ setup' = [setup EXCEPT !.pc = "connected", !.held = TRUE]
       \/ setup' = [setup EXCEPT !.pc = "failed"]
    /\ UNCHANGED <<server, tables, schemaChanges, process, validation>>

\* await client.query('DROP TABLE IF EXISTS weather_data')
SetupDropTable ==
    /\ setup.pc = "connected"
    /\ \/ /\ setup' = [setup EXCEPT !.pc = "dropped"]
          /\ tables' = tables \ {WeatherTable}
       \/ /\ setup' = SetupFails
          /\ UNCHANGED tables
    /\ UNCHANGED <<server, schemaChanges, process, validation>>

\* await client.query(createTableQuery); then the file is read and split
\* and the loop is entered
SetupCreateTable ==
    /\ setup.pc = "dropped"
    /\ \/ /\ LET dataLines == DataLinesOf(setup.lines)
             IN  setup' = [setup EXCEPT
                     !.pc = IF 0 < Len(dataLines) THEN "loading" ELSE "loaded",
                     !.dataLines = dataLines,
                     !.processed = [k \in DOMAIN dataLines |-> <<>>]]
          /\ tables' = tables \cup {WeatherTable}
       \/ /\ setup' = SetupFails
          /\ UNCHANGED tables
    /\ UNCHANGED <<server, schemaChanges, process, validation>>

\* one turn of `for (const line of batch)`: the line is parsed and either
\* inserted, or skipped for having too few values or because the insert
\* was rejected
SetupLoadLine ==
    /\ setup.pc = "loading"
    /\ setup.pos < Len(Batch(setup.dataLines, setup.i))
    /\ LET line == Batch(setup.dataLines, setup.i)[setup.pos + 1]
           k == setup.i + setup.pos + 1
           values == parseCSVLine(line)
       IN  \E inserted \in BOOLEAN :
             /\ Len(values) < MinValues => ~inserted
             /\ setup' = [setup EXCEPT
                    !.pos = @ + 1,
                    !.recordsInserted = IF inserted THEN @ + 1 ELSE @,
                    !.recordsSkipped = IF inserted THEN @ ELSE @ + 1,
                    !.processed[k] =
                        Append(@, IF inserted THEN "inserted"
                                  ELSE IF Len(values) < MinValues THEN "insufficient"
                                  ELSE "rejected")]
    /\ UNCHANGED <<server, tables, schemaChanges, process, validation>>

\* the batch is exhausted: i += batchSize and the loop condition is tested
SetupNextBatch ==
    /\ setup.pc = "loading"
    /\ setup.pos = Len(Batch(setup.dataLines, setup.i))
    /\ setup' = [setup EXCEPT
           !.i = @ + BatchSize,
           !.pos = 0,
           !.pc = IF setup.i + BatchSize < Len(setup.dataLines)
                  THEN "loading" ELSE "loaded"]
    /\ UNCHANGED <<server, tables, schemaChanges, process, validation>>

\* the COUNT(*) and sample queries, then the finally block
SetupStatistics ==
    /\ setup.pc = "loaded"
    /\ \/ setup' = [setup EXCEPT !.pc = "done", !.held = FALSE, !.releases = @ + 1]
       \/ setup' = SetupFails
    /\ UNCHANGED <<server, tables, schemaChanges, process, validation>>

SetupInit ==
    /\ ServerInit
    /\ \E lines \in CsvFiles : setup = InitialSetup(lines)
    /\ process = RunningProcess
    /\ validation = InitialValidation

SetupNext ==
    \/ SetupConnect
    \/ SetupDropTable
    \/ SetupCreateTable
    \/ SetupLoadLine
    \/ SetupNextBatch
    \/ SetupStatistics

\* setupWeatherData over every file of at most MaxLines lines
SetupSpec == SetupInit /\ [][SetupNext]_vars

\* the line has nothing but white space
OnlySpaces(line) == \A j \in DOMAIN line : line[j] \in {" ", "\t", "\n"}
IsLineWithData(line) == ~OnlySpaces(line)
\* the lines of the file after the header that are not empty
LinesWithData == SelectSeq(Tail(setup.lines), IsLineWithData)

\* unquoted commas of a line
Separators(line) ==
    {j \in DOMAIN line :
        /\ line[j] = ","
        /\ Cardinality({q \in 1..(j - 1) : line[q] = "\""}) % 2 = 0}

LoadingOver == setup.pc \in {"loaded", "done"}

\* C21: every non-empty data line after the header is processed exactly
\* once whatever the batch boundaries, and counted once as inserted or
\* skipped: no line is ever processed twice, the two counters add up to the
\* number of lines processed so far, and when loading ends every line has
\* been processed and recordsInserted + recordsSkipped is the number of data
\* lines; a line with fewer than fourteen values is skipped, and neither it
\* nor a rejected insert stops the lines after it.
C21_EveryLineCountedOnce ==
    /\ \A k \in DOMAIN setup.processed : Len(setup.processed[k]) <= 1
    /\ setup.recordsInserted + setup.recordsSkipped
         = Cardinality({k \in DOMAIN setup.processed : setup.processed[k] # <<>>})
    /\ setup.recordsInserted
         = Cardinality({k \in DOMAIN setup.processed :
                           setup.processed[k] = <<"inserted">>})
    /\ setup.pc \in {"loading", "loaded", "done"} =>
         /\ setup.dataLines = LinesWithData
         /\ DOMAIN setup.processed = DOMAIN LinesWithData
    /\ LoadingOver =>
         /\ \A k \in DOMAIN LinesWithData : Len(setup.processed[k]) = 1
         /\ setup.recordsInserted + setup.recordsSkipped = Len(LinesWithData)
         /\ \A k \in DOMAIN LinesWithData :
              Cardinality(Separators(LinesWithData[k])) < 13 =>
                  setup.processed[k] = <<"insufficient">>

\* a file of more lines than a batch was loaded: a short line and a rejected
\* insert were skipped and a later line was inserted
C21_Witness ==
    /\ LoadingOver
    /\ Len(setup.dataLines) > BatchSize
    /\ Len(setup.lines) > Len(setup.dataLines) + 1
    /\ \E a, b, c \in DOMAIN setup.processed :
         /\ a < c /\ b < c
         /\ setup.processed[a] = <<"insufficient">>
         /\ setup.processed[b] = <<"rejected">>
         /\ setup.processed[c] = <<"inserted">>

\* one of the seven keywords, in any letter case, starts at a word boundary
\* and is immediately followed by a whitespace character
KeywordThenSpace(sql) ==
    \E i \in DOMAIN sql :
        /\ i > 1 => sql[i - 1] \notin WordChars
        /\ \E kw \in DangerousKeywords :
             /\ i + Len(kw) <= Len(sql)
             /\ sql[i + Len(kw)] \in {" ", "\t", "\n"}
             /\ \A j \in DOMAIN kw : ToLowerChar(sql[i + j - 1]) = kw[j]

C22_NoBoundaryWitness ==
    /\ IsSqlCall(1)
    /\ SqlArg(1) = <<"x","D","R","O","P"," ">>
    /\ Succeeded(1)

\* 'DROP x' is rejected
C22_RejectedWitness ==
    /\ IsSqlCall(1)
    /\ SqlArg(1) = <<"D","R","O","P"," ","x">>
    /\ outcomes[1] = <<Thrown(GuardError)>>

(***************************************************************************)
(* Concurrent calls under a fair pool and a database that answers.         *)
(***************************************************************************)
\* the handler that keeps its connection longest: two queries on one client
WaitingRequests ==
    { Request("describe_table", TableArgs(Undef, TableT, Undef)) }

ReceiveWaiting(c) ==
    /\ pc[c] = "idle"
    /\ \E r \in WaitingRequests : CallTool(c, r)

FairNext ==
    \E c \in Calls :
        \/ ReceiveWaiting(c)
        \/ ConnectResolve(c)
        \/ ConnectReject(c)
        \/ QueryResolve(c)
        \/ QueryReject(c)

\* the pool hands a client that becomes idle again and again to every waiter
\* in the end (pg serves its pending queue in order); every query is answered
FairSpec ==
    /\ Init
    /\ [][FairNext]_vars
    /\ \A c \in Calls : SF_vars(ConnectResolve(c))
    /\ \A c \in Calls : WF_vars(QueryResolve(c) \/ QueryReject(c))

\* the connections a call holds
HeldBy(c) == Count(c, "acquired") - Count(c, "release")

InFlight(c) == pc[c] \in {"connect", "query"}

\* C23: a call holds at most one pooled connection at any moment and never
\* waits for a connection while it holds one; so whenever calls are in
\* flight one of them can take its next step (no deadlock), and under a fair
\* pool and a database that answers every query, every call that was
\* received completes.
C23_NoDeadlock ==
    /\ [](\A c \in Calls :
            /\ HeldBy(c) \in {0, 1}
            /\ pc[c] = "connect" => (HeldBy(c) = 0 /\ client[c] = NoClient))
    /\ []((\E c \in Calls : InFlight(c)) =>
            \E c \in Calls : ENABLED (ConnectResolve(c) \/ QueryResolve(c)))
    /\ \A c \in Calls : InFlight(c) ~> Done(c)

\* two describe_table calls were both answered through the one connection
\* of the pool, each with its two queries
C23_Witness ==
    /\ \A c \in Calls :
         /\ req[c].name = "describe_table" /\ Succeeded(c)
         /\ Count(c, "queryResolved") = 2
    /\ \A c, d \in Calls :
         \A i \in DOMAIN log[c] : \A j \in DOMAIN log[d] :
             (log[c][i].e = "acquired" /\ log[d][j].e = "acquired") =>
                 log[c][i].cl = log[d][j].cl

\* a call waits for a connection while another holds the only one
C23_WaitingWitness ==
    /\ pc[1] = "query" /\ pc[2] = "connect" /\ idleClients = {}

\* C24: when pool.connect() itself rejects, in any handler, no release is
\* called for that call, no client was acquired and no query is issued, the
\* pool is as it was, and the call fails with InternalError
\* "Failed to execute <name>: <message of the connect error>".
C24_ConnectRejection ==
    \A c \in Calls :
        Count(c, "connectRejected") >= 1 =>
            /\ Done(c)
            /\ Count(c, "connectRejected") = 1
            /\ log[c][Len(log[c])].e = "connectRejected"
            /\ Count(c, "release") = 0
            /\ Count(c, "acquired") = 0
            /\ Count(c, "query") = 0
            /\ client[c] = NoClient
            /\ idleClients \subseteq Clients
            /\ FailedWith(c, "InternalError")
            /\ \E i \in DOMAIN log[c] :
                 /\ log[c][i].e = "connectRejected"
                 /\ outcomes[c][1].error.message =
                      <<"Failed to execute ", req[c].name, ": ">>
                        \o log[c][i].ans.error.message

\* pool.connect() rejected in a list_tables call
C24_Witness ==
    /\ req[1].name = "list_tables"
    /\ Count(1, "connectRejected") = 1
    /\ FailedWith(1, "InternalError")
    /\ outcomes[1][1].error.message =
         <<"Failed to execute ", "list_tables", ": ", "connect ECONNREFUSED">>
    /\ idleClients = Clients

(***************************************************************************)
(* The server process from run() to exit: the test connection, the         *)
(* transport, SIGINT/SIGTERM, and the calls served in between.             *)
(***************************************************************************)
Signals == {"SIGINT", "SIGTERM"}

\* process.exit(code)
Exit(code) == [process EXCEPT !.pc = "exited", !.exited = TRUE, !.exitCode = code]

\* the catch block of run() logging the failure and going on
RunTestRejectContinue ==
    /\ ~process.exited
    /\ process.pc = "testing"
    /\ process' = [process EXCEPT !.testFailed = TRUE, !.pc = "connecting"]
    /\ UNCHANGED <<server, tables, schemaChanges, setup, validation>>

\* run(): await this.pool.connect() resolves; the client is released at once
RunTestResolve ==
    /\ ~process.exited
    /\ process.pc = "testing"
    /\ process' = [process EXCEPT !.testAcquired = @ + 1, !.testReleased = @ + 1,
                                  !.pc = "connecting"]
    /\ UNCHANGED <<server, tables, schemaChanges, setup, validation>>

\* run(): await this.pool.connect() rejects; the catch block exits with 1
RunTestReject ==
    /\ ~process.exited
    /\ process.pc = "testing"
    /\ process' = [Exit(1) EXCEPT !.testFailed = TRUE]
    /\ UNCHANGED <<server, tables, schemaChanges, setup, validation>>

\* run(): await this.server.connect(transport) resolves
RunTransportConnect ==
    /\ ~process.exited
    /\ process.pc = "connecting"
    /\ process' = [process EXCEPT !.transport = TRUE, !.pc = "running"]
    /\ UNCHANGED <<server, tables, schemaChanges, setup, validation>>

\* run(): await this.server.connect(transport) rejects; run().catch exits
RunTransportReject ==
    /\ ~process.exited
    /\ process.pc = "connecting"
    /\ process' = Exit(1)
    /\ UNCHANGED <<server, tables, schemaChanges, setup, validation>>

\* a signal is delivered: its handler logs and calls this.pool.end(); the
\* pool rejects every call of end() after the first
Signal(sig) ==
    /\ ~process.exited
    /\ Len(process.signals) < MaxSignals
    /\ process' = [process EXCEPT
           !.signals = Append(@, sig),
           !.endCalls = @ + 1,
           !.endRejections = IF process.endCalls = 0 THEN @ ELSE @ + 1]
    /\ UNCHANGED <<server, tables, schemaChanges, setup, validation>>

\* the first pool.end() completes and its handler calls process.exit(0)
PoolEndResolve ==
    /\ ~process.exited
    /\ process.endCalls >= 1
    /\ ~process.endCompleted
    /\ process' = [Exit(0) EXCEPT !.endCompleted = TRUE]
    /\ UNCHANGED <<server, tables, schemaChanges, setup, validation>>

\* the rejection of a later pool.end() leaves its async handler unhandled:
\* the runtime ends the process with code 1, or only warns
UnhandledRejection ==
    /\ ~process.exited
    /\ process.endRejections > 0
    /\ \/ process' = Exit(1)
       \/ process' = [process EXCEPT !.endRejections = @ - 1]
    /\ UNCHANGED <<server, tables, schemaChanges, setup, validation>>

\* the request the transport delivers once it is connected
StartupRequests == {Request("list_tables", EmptyArgs)}

ServeCall(c) ==
    /\ ~process.exited
    /\ process.transport
    /\ pc[c] = "idle"
    /\ \E r \in StartupRequests : CallTool(c, r)

\* the steps of the calls while the process lives; an ended pool hands out
\* no client
ServeConnectResolve(c) ==
    /\ ~process.exited
    /\ process.endCalls = 0
    /\ ConnectResolve(c)
ServeConnectReject(c) == ~process.exited /\ ConnectReject(c)
ServeQueryResolve(c) == ~process.exited /\ QueryResolve(c)
ServeQueryReject(c) == ~process.exited /\ QueryReject(c)

ProcessInit ==
    /\ ServerInit
    /\ setup = InitialSetup(<<HeaderLine>>)
    /\ process = StartingProcess
    /\ validation = InitialValidation

ProcessNext ==
    \/ RunTestResolve
    \/ RunTestReject
    \/ RunTransportConnect
    \/ RunTransportReject
    \/ \E sig \in Signals : Signal(sig)
    \/ PoolEndResolve
    \/ UnhandledRejection
    \/ \E c \in Calls :
           \/ ServeCall(c)
           \/ ServeConnectResolve(c)
           \/ ServeConnectReject(c)
           \/ ServeQueryResolve(c)
           \/ ServeQueryReject(c)

\* the server process from start to exit
ProcessSpec == ProcessInit /\ [][ProcessNext]_vars

\* C25: the transport is connected, and calls are served, only after the
\* test connection has been acquired from the pool and released; when the
\* test acquisition fails the process exits with code 1, the transport is
\* never connected and no call is served.
C25_StartupOrder ==
    /\ process.testReleased <= process.testAcquired
    /\ process.testAcquired <= 1
    /\ process.transport =>
         /\ process.testAcquired = 1
         /\ process.testReleased = 1
         /\ ~process.testFailed
    /\ \A c \in Calls : pc[c] # "idle" => process.transport
    /\ process.testFailed =>
         /\ process.exited /\ process.exitCode = 1
         /\ ~process.transport
         /\ \A c \in Calls : pc[c] = "idle"

\* a call was answered by the started server
C25_Witness ==
    /\ process.transport
    /\ process.testAcquired = 1 /\ process.testReleased = 1
    /\ Succeeded(1)

\* the test acquisition failed and the process exited with 1
C25_FailedWitness ==
    /\ process.testFailed /\ process.exited /\ process.exitCode = 1

\* C26: for any sequence of SIGINT and SIGTERM deliveries, pool.end() is
\* invoked at most once, and the process exits with code 0 only after that
\* pool.end() has completed.
C26_PoolEndedOnce ==
    /\ process.endCalls <= 1
    /\ (process.exited /\ process.exitCode = 0) => process.endCompleted

\* the exit-code half of C26 alone
C26_ExitAfterEnd ==
    (process.exited /\ process.exitCode = 0) =>
        (process.endCompleted /\ process.endCalls >= 1)

\* a second signal arrived while the first pool.end() was pending
C26_SecondSignal ==
    /\ Len(process.signals) = 2
    /\ process.endCalls = 2
    /\ ~process.endCompleted

(***************************************************************************)
(* validate-weather.ts: validateWeatherData, next to the setup script that *)
(* creates the table it looks for.                                         *)
(***************************************************************************)
\* an await of the function has ended: the step and how
Passed(step, how) == [validation EXCEPT !.path = Append(@, <<step, how>>)]

\* the outer catch block logs; the finally block calls pool.end()
ValidateCatch(step) ==
    [Passed(step, "raised") EXCEPT !.pc = "ending", !.endCalls = @ + 1]

\* client.release() at the end of the try block, then the finally block
ValidateReleaseAndEnd(step) ==
    [Passed(step, "resolved") EXCEPT !.pc = "ending", !.held = FALSE,
                                    !.releases = @ + 1, !.endCalls = @ + 1]

\* const client = await pool.connect()
ValidateConnect ==
    /\ validation.pc = "connect"
    /\ \/ validation' = [Passed("connect", "resolved") EXCEPT
                             !.pc = "tableCheck", !.held = TRUE, !.acquired = @ + 1]
       \/ validation' = ValidateCatch("connect")
    /\ UNCHANGED <<server, tables, schemaChanges, setup, process>>

\* the EXISTS query on information_schema.tables; when the table is missing
\* the client is released and pool.end() is awaited before the return
ValidateTableCheck ==
    /\ validation.pc = "tableCheck"
    /\ \/ /\ WeatherTable \in tables
          /\ validation' = [Passed("tableCheck", "exists") EXCEPT !.pc = "columns"]
       \/ /\ WeatherTable \notin tables
          /\ validation' = [Passed("tableCheck", "missing") EXCEPT
                                !.pc = "earlyEnd", !.held = FALSE,
                                !.releases = @ + 1, !.endCalls = @ + 1]
       \/ validation' = ValidateCatch("tableCheck")
    /\ UNCHANGED <<server, tables, schemaChanges, setup, process>>

\* the pool.end() of the table-missing branch resolves; `return` runs the
\* finally block, which calls pool.end() again
ValidateEarlyReturn ==
    /\ validation.pc = "earlyEnd"
    /\ validation' = [Passed("end", "resolved") EXCEPT
                          !.pc = "ending", !.endCalls = @ + 1]
    /\ UNCHANGED <<server, tables, schemaChanges, setup, process>>

\* the query on information_schema.columns
ValidateColumns ==
    /\ validation.pc = "columns"
    /\ \/ validation' = [Passed("columns", "resolved") EXCEPT !.pc = "count"]
       \/ validation' = ValidateCatch("columns")
    /\ UNCHANGED <<server, tables, schemaChanges, setup, process>>

\* SELECT COUNT(*): the sample query follows only when totalRecords > 0
ValidateCount ==
    /\ validation.pc = "count"
    /\ \/ validation' = [Passed("count", "some") EXCEPT !.pc = "sample"]
       \/ validation' = [Passed("count", "none") EXCEPT !.pc = "recent"]
       \/ validation' = ValidateCatch("count")
    /\ UNCHANGED <<server, tables, schemaChanges, setup, process>>

\* SELECT * FROM weather_data LIMIT 3
ValidateSample ==
    /\ validation.pc = "sample"
    /\ \/ validation' = [Passed("sample", "resolved") EXCEPT !.pc = "recent"]
       \/ validation' = ValidateCatch("sample")
    /\ UNCHANGED <<server, tables, schemaChanges, setup, process>>

\* the query ordered by timestamp, inside the inner try block
ValidateRecent ==
    /\ validation.pc = "recent"
    /\ \/ validation' = ValidateReleaseAndEnd("recent")
       \/ validation' = [Passed("recent", "raised") EXCEPT !.pc = "alt"]
    /\ UNCHANGED <<server, tables, schemaChanges, setup, process>>

\* the alternative query of the inner catch block
ValidateAlt ==
    /\ validation.pc = "alt"
    /\ \/ validation' = ValidateReleaseAndEnd("alt")
       \/ validation' = ValidateCatch("alt")
    /\ UNCHANGED <<server, tables, schemaChanges, setup, process>>

\* the pool.end() of the finally block settles: the first call on a pool
\* resolves, a later one is rejected and validateWeatherData rejects with it
ValidateEndSettles ==
    /\ validation.pc = "ending"
    /\ validation' =
         IF validation.endCalls = 1
         THEN [Passed("end", "resolved") EXCEPT !.pc = "returned"]
         ELSE [Passed("end", "raised") EXCEPT !.pc = "rejected"]
    /\ UNCHANGED <<server, tables, schemaChanges, setup, process>>

ValidateNext ==
    \/ ValidateConnect
    \/ ValidateTableCheck
    \/ ValidateEarlyReturn
    \/ ValidateColumns
    \/ ValidateCount
    \/ ValidateSample
    \/ ValidateRecent
    \/ ValidateAlt
    \/ ValidateEndSettles
    \/ SetupConnect
    \/ SetupDropTable
    \/ SetupCreateTable
    \/ SetupStatistics

\* validateWeatherData while setupWeatherData (header-only file) runs
ValidateSpec == Init /\ [][ValidateNext]_vars

ValidationOver == validation.pc \in {"returned", "rejected"}

\* C27: on every exit path of validateWeatherData the client acquired from
\* the pool is released exactly once and pool.end() is called exactly once:
\* the function finishes with the pool closed and no connection checked out.
C27_ReleasedAndEndedOnce ==
    ValidationOver =>
        /\ validation.releases = validation.acquired
        /\ ~validation.held
        /\ validation.endCalls = 1
        /\ validation.pc = "returned"

\* the path on which every query succeeds
C27_SuccessPathOnly ==
    (ValidationOver /\ \A i \in DOMAIN validation.path :
                          validation.path[i][2] \notin {"raised", "missing"}) =>
        /\ validation.releases = 1 /\ ~validation.held
        /\ validation.endCalls = 1

\* the table is missing: pool.end() has been called twice
C27_MissingTableEndsTwice ==
    /\ ValidationOver
    /\ <<"tableCheck", "missing">> \in Range(validation.path)
    /\ validation.endCalls = 2
    /\ validation.pc = "rejected"

\* a query raised: the function returned with the client still checked out
C27_RaisedLeaksClient ==
    /\ validation.pc = "returned"
    /\ <<"columns", "raised">> \in Range(validation.path)
    /\ validation.held /\ validation.releases = 0

====
